---- MODULE Spec2Model ----
(***************************************************************************)
(* Model of controllers/argo_cluster.go: the conversion of a CAPI          *)
(* kubeconfig secret into an Argo CD cluster secret, with the take-along   *)
(* labels and annotations of the cluster resource.                         *)
(*                                                                         *)
(* Go strings are TLA+ strings (Len, SubSeq and \o act on them character   *)
(* by character), Go maps are functions whose domain is the key set, a     *)
(* nil pointer is <<>> and a pointer to v is <<v>>.  The iteration order   *)
(* of a Go map is unspecified: every `range` over a map takes the order    *)
(* as a sequence that enumerates the keys, chosen by the calling action.   *)
(***************************************************************************)
EXTENDS Integers, Sequences, FiniteSets, TLC

VARIABLES
    cluster,                \* *clusterv1.Cluster: <<>> (nil) or <<[Name, Namespace, Labels, Annotations]>>
    s,                      \* *corev1.Secret, the source secret: [Name, Namespace]
    c,                      \* *CapiCluster: [Name, Namespace, KubeConfig]
    ArgoNamespace,          \* package variable ArgoNamespace
    EnableNamespacedNames,  \* package variable EnableNamespacedNames
    pc,                     \* position of the caller: "idle", "assembled", "done"
    argo,                   \* the *ArgoCluster returned by NewArgoCluster, <<>> before
    secret,                 \* the *corev1.Secret returned by ConvertToSecret, <<>> before
    log,                    \* the lines written by log.Info, in order
    history,                \* the secrets generated so far, with the source of each
    call,                   \* arguments of a direct call of extractTakeAlongMeta
    ret                     \* its return value, <<>> before the call

vars == <<cluster, s, c, ArgoNamespace, EnableNamespacedNames, pc, argo, secret,
          log, history, call, ret>>

----------------------------------------------------------------------------
(* Bounds of the model *)

\* Largest number of keys in a metadata map of the cluster resource.
MaxKeys == 4
\* Largest number of conversions recorded in one behaviour.
MaxPasses == 2

----------------------------------------------------------------------------
(* package strings, as used by this file *)

HasPrefix(str, prefix) ==
    Len(str) >= Len(prefix) /\ SubSeq(str, 1, Len(prefix)) = prefix

HasSuffix(str, suffix) ==
    Len(str) >= Len(suffix)
    /\ SubSeq(str, Len(str) - Len(suffix) + 1, Len(str)) = suffix

TrimSuffix(str, suffix) ==
    IF HasSuffix(str, suffix) THEN SubSeq(str, 1, Len(str) - Len(suffix)) ELSE str

\* Position of the first instance of sep in str at or after i, 0 if there is none.
RECURSIVE IndexFrom(_, _, _)
IndexFrom(str, sep, i) ==
    IF i + Len(sep) - 1 > Len(str) THEN 0
    ELSE IF SubSeq(str, i, i + Len(sep) - 1) = sep THEN i
    ELSE IndexFrom(str, sep, i + 1)

Index(str, sep) == IndexFrom(str, sep, 1)

\* strings.Split for a non-empty separator: the substrings between the
\* non-overlapping instances of sep, taken from the left.
RECURSIVE Split(_, _)
Split(str, sep) ==
    LET i == Index(str, sep)
    IN IF i = 0
       THEN <<str>>
       ELSE <<SubSeq(str, 1, i - 1)>> \o Split(SubSeq(str, i + Len(sep), Len(str)), sep)

\* fmt.Sprintf for a format with a single %s: the format is kept as the
\* text before and the text after the verb.
Sprintf(format, arg) == format[1] \o arg \o format[2]

----------------------------------------------------------------------------
(* Constants and small types *)

metaAnnotations == 0
metaLabels == 1

clusterTakeAlongKeyFmt == <<"take-along-", ".capi-to-argocd.">>
clusterTakenFromClusterKeyFmt == <<"taken-from-cluster-", ".capi-to-argocd.">>

EmptyMap == [k \in {} |-> ""]

GetArgoCommonLabels ==
    [k \in {"capi-to-argocd/owned", "argocd.argoproj.io/secret-type"} |->
        IF k = "capi-to-argocd/owned" THEN "true" ELSE "cluster"]

GetMetaType(metaType) ==
    LET name == CASE metaType = metaAnnotations -> "annotation"
                  [] metaType = metaLabels -> "label"
                  [] OTHER -> ""
    IN [Name |-> name,
        TakeAlong |-> Sprintf(clusterTakeAlongKeyFmt, name),
        TakenFrom |-> Sprintf(clusterTakenFromClusterKeyFmt, name)]

----------------------------------------------------------------------------
(* extractTakeAlongMeta: <<target key, error>>, the error <<>> when nil *)

extractTakeAlongMeta(metaType, key) ==
    LET takeAlong == Sprintf(clusterTakeAlongKeyFmt, metaType)
        splitResult == Split(key, takeAlong)
    IN IF HasPrefix(key, takeAlong)
       THEN IF Len(splitResult) >= 2 /\ splitResult[2] # ""
            THEN <<splitResult[2], <<>>>>
            ELSE <<"", <<"invalid take-along " \o metaType
                          \o ". missing key after '/': " \o key>>>>
       ELSE <<"", <<>>>>

----------------------------------------------------------------------------
(* buildTakeAlongArray: <<take-along map, diagnostics>>.  order is the     *)
(* order in which `for k := range meta` visits the keys of meta.  The nil  *)
(* map of the malformed-key return has no entry: it is EmptyMap.           *)

\* The first loop with a `continue` in place of the early return: a key
\* whose extraction fails is passed over.
RECURSIVE scanKeysSkipMalformed(_, _, _, _)
scanKeysSkipMalformed(metaName, order, i, takeAlongArray) ==
    IF i > Len(order)
    THEN [err |-> <<>>, takeAlongArray |-> takeAlongArray]
    ELSE LET r == extractTakeAlongMeta(metaName.Name, order[i])
         IN scanKeysSkipMalformed(metaName, order, i + 1,
                IF r[2] = <<>> /\ r[1] # "" THEN Append(takeAlongArray, r[1])
                                            ELSE takeAlongArray)

\* The first loop: the targets extracted so far (takeAlongArray), or the
\* error of the first key whose extraction fails.
RECURSIVE scanKeys(_, _, _, _)
scanKeys(metaName, order, i, takeAlongArray) ==
    IF i > Len(order)
    THEN [err |-> <<>>, takeAlongArray |-> takeAlongArray]
    ELSE LET r == extractTakeAlongMeta(metaName.Name, order[i])
         IN IF r[2] # <<>>
            THEN [err |-> r[2], takeAlongArray |-> <<>>]
            ELSE scanKeys(metaName, order, i + 1,
                          IF r[1] # "" THEN Append(takeAlongArray, r[1])
                                       ELSE takeAlongArray)

\* m[k] = v of a Go map.
MapSet(m, k, v) == [x \in DOMAIN m \cup {k} |-> IF x = k THEN v ELSE m[x]]

\* The second loop: copy each target found in meta, with its marker.
RECURSIVE copyKeys(_, _, _, _, _, _, _)
copyKeys(meta, metaName, name, namespace, takeAlongArray, i, acc) ==
    IF i > Len(takeAlongArray)
    THEN acc
    ELSE LET key == takeAlongArray[i]
         IN IF key = ""
            THEN copyKeys(meta, metaName, name, namespace, takeAlongArray, i + 1, acc)
            ELSE IF key \notin DOMAIN meta
            THEN copyKeys(meta, metaName, name, namespace, takeAlongArray, i + 1,
                     [acc EXCEPT !.errors = Append(@,
                         "take-along " \o metaName.Name \o " '" \o key
                         \o "' not found on cluster resource: " \o name
                         \o ", namespace: " \o namespace \o ". Ignoring")])
            ELSE copyKeys(meta, metaName, name, namespace, takeAlongArray, i + 1,
                     [acc EXCEPT !.takeAlongMap =
                         MapSet(MapSet(@, key, meta[key]),
                                metaName.TakenFrom \o key, "")])

buildTakeAlongArray(cl, metaType, order) ==
    LET metaName == GetMetaType(metaType)
        meta == IF metaType = metaAnnotations THEN cl.Annotations ELSE cl.Labels
        scan == scanKeys(metaName, order, 1, <<>>)
        done == copyKeys(meta, metaName, cl.Name, cl.Namespace, scan.takeAlongArray, 1,
                         [takeAlongMap |-> EmptyMap, errors |-> <<>>])
    IN IF metaType \notin {metaAnnotations, metaLabels}
       THEN <<EmptyMap, <<>>>>
       ELSE IF scan.err # <<>>
       THEN <<EmptyMap, scan.err>>
       ELSE <<done.takeAlongMap, done.errors>>

----------------------------------------------------------------------------
(* Names *)

BuildClusterName(str, namespace) ==
    LET prefix == IF EnableNamespacedNames THEN "" \o namespace \o "-" ELSE ""
    IN prefix \o str

\* BuildNamespacedName pairing the name with the namespace of the source.
BuildNamespacedNameInSourceNamespace(str, namespace) ==
    [Name |-> "cluster-" \o BuildClusterName(TrimSuffix(str, "-kubeconfig"), namespace),
     Namespace |-> namespace]

BuildNamespacedName(str, namespace) ==
    [Name |-> "cluster-" \o BuildClusterName(TrimSuffix(str, "-kubeconfig"), namespace),
     Namespace |-> ArgoNamespace]

----------------------------------------------------------------------------
(* NewArgoCluster: <<the ArgoCluster, the lines logged>>.  The kubeconfig  *)
(* holds the first cluster and the first user, the only ones read.         *)

NewArgoCluster(cc, ss, cl, labelOrder, annotationOrder) ==
    LET labels == IF cl # <<>> THEN buildTakeAlongArray(cl[1], metaLabels, labelOrder)
                               ELSE <<EmptyMap, <<>>>>
        annotations == IF cl # <<>>
                       THEN buildTakeAlongArray(cl[1], metaAnnotations, annotationOrder)
                       ELSE <<EmptyMap, <<>>>>
    IN << [NamespacedName |-> BuildNamespacedName(ss.Name, ss.Namespace),
           ClusterName |-> BuildClusterName(cc.KubeConfig.ClusterName, ss.Namespace),
           ClusterServer |-> cc.KubeConfig.Server,
           ClusterLabels |->
               [k \in {"capi-to-argocd/cluster-secret-name",
                       "capi-to-argocd/cluster-namespace"} |->
                   IF k = "capi-to-argocd/cluster-secret-name"
                   THEN cc.Name \o "-kubeconfig" ELSE cc.Namespace],
           TakeAlongAnnotations |-> annotations[1],
           TakeAlongLabels |-> labels[1],
           ClusterConfig |->
               [BearerToken |-> cc.KubeConfig.Token,
                TLSClientConfig |->
                    <<[CaData |-> <<cc.KubeConfig.CaData>>,
                       CertData |-> cc.KubeConfig.CertData,
                       KeyData |-> cc.KubeConfig.KeyData]>>]],
          labels[2] \o annotations[2] >>

----------------------------------------------------------------------------
(* encoding/json on ArgoConfig and ArgoTLS: the JSON text.  A field tagged *)
(* omitempty is left out when its pointer is nil and written otherwise,    *)
(* whatever it points to.  The values of the model need no escaping.       *)

\* The members of an object: the fields present, in struct order.
RECURSIVE jsonMembers(_)
jsonMembers(fields) ==
    IF fields = <<>>
    THEN ""
    ELSE LET f == Head(fields)
             rest == jsonMembers(Tail(fields))
         IN IF f[2] = <<>>
            THEN rest
            ELSE "\"" \o f[1] \o "\":" \o f[2][1] \o (IF rest = "" THEN "" ELSE "," \o rest)

jsonString(str) == "\"" \o str \o "\""

jsonPtrString(p) == IF p = <<>> THEN <<>> ELSE <<jsonString(p[1])>>

MarshalArgoTLS(tls) ==
    "{" \o jsonMembers(<< <<"caData", jsonPtrString(tls.CaData)>>,
                          <<"certData", jsonPtrString(tls.CertData)>>,
                          <<"keyData", jsonPtrString(tls.KeyData)>> >>) \o "}"

MarshalArgoConfig(cfg) ==
    "{" \o jsonMembers(<< <<"tlsClientConfig",
                            IF cfg.TLSClientConfig = <<>> THEN <<>>
                            ELSE <<MarshalArgoTLS(cfg.TLSClientConfig[1])>> >>,
                          <<"bearerToken", jsonPtrString(cfg.BearerToken)>> >>) \o "}"

----------------------------------------------------------------------------
(* ConvertToSecret *)

\* for key, value := range src { dst[key] = value }
MapMerge(dst, src) ==
    [k \in DOMAIN dst \cup DOMAIN src |-> IF k \in DOMAIN src THEN src[k] ELSE dst[k]]

\* ConvertToSecret with the three merge loops in the reverse order: the
\* common labels are written last and win.
ConvertToSecretCommonLast(a) ==
    LET mergedLabels == MapMerge(MapMerge(MapMerge(EmptyMap, a.TakeAlongLabels),
                                          a.ClusterLabels),
                                 GetArgoCommonLabels)
    IN [Kind |-> "Secret",
        APIVersion |-> "v1",
        Name |-> a.NamespacedName.Name,
        Namespace |-> a.NamespacedName.Namespace,
        Labels |-> mergedLabels,
        Annotations |-> EmptyMap,
        Data |-> [name |-> a.ClusterName,
                  server |-> a.ClusterServer,
                  config |-> MarshalArgoConfig(a.ClusterConfig)]]

ConvertToSecret(a) ==
    LET mergedLabels == MapMerge(MapMerge(MapMerge(EmptyMap, GetArgoCommonLabels),
                                          a.ClusterLabels),
                                 a.TakeAlongLabels)
    IN [Kind |-> "Secret",
        APIVersion |-> "v1",
        Name |-> a.NamespacedName.Name,
        Namespace |-> a.NamespacedName.Namespace,
        Labels |-> mergedLabels,
        Annotations |-> EmptyMap,
        Data |-> [name |-> a.ClusterName,
                  server |-> a.ClusterServer,
                  config |-> MarshalArgoConfig(a.ClusterConfig)]]

----------------------------------------------------------------------------
(* Inputs *)

TAL == GetMetaType(metaLabels).TakeAlong
TFL == GetMetaType(metaLabels).TakenFrom
TAA == GetMetaType(metaAnnotations).TakeAlong
TFA == GetMetaType(metaAnnotations).TakenFrom

\* Label keys that ask for a label to be taken along: a plain target, a
\* target named like a provenance marker, targets named like a common and
\* an identity label, an absent target, the bare prefix, and targets that
\* hold the prefix again.
LabelRequestKeys ==
    {TAL \o "foo", TAL \o TFL \o "foo", TAL \o "capi-to-argocd/owned",
     TAL \o "capi-to-argocd/cluster-namespace", TAL \o "missing", TAL,
     TAL \o "foo" \o TAL \o "bar", TAL \o TAL \o "foo"}

\* The other label keys.
LabelPlainKeys ==
    {"foo", TFL \o "foo", "capi-to-argocd/owned", "capi-to-argocd/cluster-namespace"}

AnnotationRequestKeys == {TAA \o "note", TAA}
AnnotationPlainKeys == {"note"}

\* A request key carries no value of its own; another key carries one of two.
ValuesOf(k) == IF HasPrefix(k, TAL) \/ HasPrefix(k, TAA) THEN {""} ELSE {"v", "d"}

\* The maps over at most n of the keys.
MapsOver(keys, n) ==
    UNION {{m \in [K -> {"", "v", "d"}] : \A k \in K : m[k] \in ValuesOf(k)} :
           K \in {S \in SUBSET keys : Cardinality(S) <= n}}

\* The cluster resources with at most n labels and annotations in all.
Clusters(n) ==
    UNION {{[Name |-> "prod", Namespace |-> "team-a", Labels |-> l, Annotations |-> a] :
              l \in MapsOver(LabelRequestKeys \cup LabelPlainKeys,
                             n - Cardinality(DOMAIN a))} :
           a \in MapsOver(AnnotationRequestKeys \cup AnnotationPlainKeys, n)}

\* The orders in which a range over a map with key set S can visit it.
RECURSIVE Orders(_)
Orders(S) ==
    IF S = {} THEN {<<>>}
    ELSE UNION {{<<k>> \o o : o \in Orders(S \ {k})} : k \in S}

DefaultKubeConfig ==
    [ClusterName |-> "prod", Server |-> "https://prod:6443", CaData |-> "Q0E=",
     Token |-> <<>>, CertData |-> <<"Q1JU">>, KeyData |-> <<"S0VZ">>]

\* The kubeconfig identities: each user value absent, empty or set, the CA
\* data (a plain string) empty or set.
KubeConfigs ==
    [ClusterName : {"prod"}, Server : {"https://prod:6443"}, CaData : {"", "Q0E="},
     Token : {<<>>, <<"">>, <<"tok">>}, CertData : {<<>>, <<"">>, <<"Q1JU">>},
     KeyData : {<<>>, <<"">>, <<"S0VZ">>}]

DefaultCapi == [Name |-> "prod", Namespace |-> "team-a", KubeConfig |-> DefaultKubeConfig]

SecretNames ==
    {"prod-kubeconfig", "prod", "a-prod-kubeconfig", "prod-kubeconfig-kubeconfig",
     "-kubeconfig"}

SecretNamespaces == {"team", "team-a", "argocd"}

DefaultSecret == [Name |-> "prod-kubeconfig", Namespace |-> "team-a"]

ExtractKinds == {"label", "annotation", ""}

ExtractKeys ==
    {"", "foo", "take-along-label", "foo/bar"}
    \cup UNION {{Sprintf(clusterTakeAlongKeyFmt, k),
                 Sprintf(clusterTakeAlongKeyFmt, k) \o "foo",
                 Sprintf(clusterTakeAlongKeyFmt, k) \o Sprintf(clusterTakeAlongKeyFmt, k) \o "foo",
                 Sprintf(clusterTakeAlongKeyFmt, k) \o "foo" \o Sprintf(clusterTakeAlongKeyFmt, k) \o "bar",
                 Sprintf(clusterTakeAlongKeyFmt, k) \o "foo" \o Sprintf(clusterTakeAlongKeyFmt, k),
                 "foo" \o Sprintf(clusterTakeAlongKeyFmt, k) \o "bar"} : k \in ExtractKinds}

DefaultCall == [metaType |-> "label", key |-> "foo"]

----------------------------------------------------------------------------
(* State machine: the caller (the reconcile loop) assembles an ArgoCluster *)
(* from its inputs, converts it to a secret, and does so again on its next *)
(* pass.                                                                   *)

Fresh ==
    /\ pc = "idle"
    /\ argo = <<>>
    /\ secret = <<>>
    /\ log = <<>>
    /\ history = <<>>
    /\ ret = <<>>

\* Conversions of one source with every cluster resource of the bounds.
Init ==
    /\ cluster \in {<<>>} \cup {<<cl>> : cl \in Clusters(MaxKeys)}
    /\ s = DefaultSecret
    /\ c = DefaultCapi
    /\ ArgoNamespace = "argocd"
    /\ EnableNamespacedNames = FALSE
    /\ call = DefaultCall
    /\ Fresh

\* Conversions of every kubeconfig identity.
InitConfig ==
    /\ cluster = <<>>
    /\ s = DefaultSecret
    /\ c \in [Name : {"prod"}, Namespace : {"team-a"}, KubeConfig : KubeConfigs]
    /\ ArgoNamespace = "argocd"
    /\ EnableNamespacedNames = FALSE
    /\ call = DefaultCall
    /\ Fresh

\* Conversions of every source secret, under both settings of the toggle.
InitNames ==
    /\ cluster = <<>>
    /\ s \in [Name : SecretNames, Namespace : SecretNamespaces]
    /\ c = DefaultCapi
    /\ ArgoNamespace \in {"argocd", "team-a"}
    /\ EnableNamespacedNames \in BOOLEAN
    /\ call = DefaultCall
    /\ Fresh

\* Direct calls of extractTakeAlongMeta.
InitExtract ==
    /\ cluster = <<>>
    /\ s = DefaultSecret
    /\ c = DefaultCapi
    /\ ArgoNamespace = "argocd"
    /\ EnableNamespacedNames = FALSE
    /\ call \in [metaType : ExtractKinds, key : ExtractKeys]
    /\ Fresh

Assemble ==
    /\ pc = "idle"
    /\ \E labelOrder \in Orders(IF cluster = <<>> THEN {} ELSE DOMAIN cluster[1].Labels),
          annotationOrder \in Orders(IF cluster = <<>> THEN {} ELSE DOMAIN cluster[1].Annotations) :
          LET r == NewArgoCluster(c, s, cluster, labelOrder, annotationOrder)
          IN /\ argo' = <<r[1]>>
             /\ log' = r[2]
    /\ pc' = "assembled"
    /\ UNCHANGED <<cluster, s, c, ArgoNamespace, EnableNamespacedNames, secret,
                   history, call, ret>>

Synthesize ==
    /\ pc = "assembled"
    /\ secret' = <<ConvertToSecret(argo[1])>>
    /\ history' = Append(history, [source |-> s, secret |-> ConvertToSecret(argo[1])])
    /\ pc' = "done"
    /\ UNCHANGED <<cluster, s, c, ArgoNamespace, EnableNamespacedNames, argo, log,
                   call, ret>>

\* The next pass over the same objects.
Reconcile ==
    /\ pc = "done"
    /\ Len(history) < MaxPasses
    /\ pc' = "idle"
    /\ UNCHANGED <<cluster, s, c, ArgoNamespace, EnableNamespacedNames, argo, secret,
                   log, history, call, ret>>

\* The next pass, over another source secret.
NextSource ==
    /\ pc = "done"
    /\ Len(history) < MaxPasses
    /\ \E src \in [Name : SecretNames, Namespace : SecretNamespaces] :
          /\ src # s
          /\ s' = src
    /\ pc' = "idle"
    /\ UNCHANGED <<cluster, c, ArgoNamespace, EnableNamespacedNames, argo, secret,
                   log, history, call, ret>>

Extract ==
    /\ ret = <<>>
    /\ ret' = <<extractTakeAlongMeta(call.metaType, call.key)>>
    /\ UNCHANGED <<cluster, s, c, ArgoNamespace, EnableNamespacedNames, pc, argo,
                   secret, log, history, call>>

Next == Assemble \/ Synthesize

NextPasses == Assemble \/ Synthesize \/ Reconcile

NextNames == Assemble \/ Synthesize \/ NextSource

NextExtract == Extract

Spec == Init /\ [][Next]_vars

SpecPasses == Init /\ [][NextPasses]_vars

SpecConfig == InitConfig /\ [][NextPasses]_vars

SpecNames == InitNames /\ [][NextNames]_vars

SpecExtract == InitExtract /\ [][NextExtract]_vars

----------------------------------------------------------------------------
(* What the properties below read from the state *)

Assembled == pc \in {"assembled", "done"} /\ cluster # <<>>

KindName(metaType) == IF metaType = metaLabels THEN "label" ELSE "annotation"

\* The prefixes of a kind, spelled out.
TakeAlongPrefix(metaType) == "take-along-" \o KindName(metaType) \o ".capi-to-argocd."
TakenFromPrefix(metaType) == "taken-from-cluster-" \o KindName(metaType) \o ".capi-to-argocd."

\* The metadata map of a kind that was scanned, the map the scan returned
\* and the lines it reported, each of which names its kind.
MetaOf(metaType) ==
    IF metaType = metaLabels THEN cluster[1].Labels ELSE cluster[1].Annotations

TakeAlongOf(metaType) ==
    IF metaType = metaLabels THEN argo[1].TakeAlongLabels ELSE argo[1].TakeAlongAnnotations

IsMalformedLine(metaType, line) ==
    HasPrefix(line, "invalid take-along " \o KindName(metaType) \o ". ")

IsWarningLine(metaType, line) ==
    HasPrefix(line, "take-along " \o KindName(metaType) \o " '")

DiagOf(metaType) ==
    SelectSeq(log, LAMBDA line : IsMalformedLine(metaType, line) \/ IsWarningLine(metaType, line))

\* What follows the take-along prefix in a key that starts with it.
Remainder(metaType, k) == SubSeq(k, Len(TakeAlongPrefix(metaType)) + 1, Len(k))

\* The take-along keys of a map: prefix + T with T non-empty.
RequestKeys(metaType) ==
    {k \in DOMAIN MetaOf(metaType) :
        HasPrefix(k, TakeAlongPrefix(metaType)) /\ Remainder(metaType, k) # ""}

\* Their targets that are keys of the same map, and those that are not.
PresentTargets(metaType) ==
    {Remainder(metaType, k) : k \in RequestKeys(metaType)} \cap DOMAIN MetaOf(metaType)

AbsentRequests(metaType) ==
    {k \in RequestKeys(metaType) : Remainder(metaType, k) \notin DOMAIN MetaOf(metaType)}

HasMalformedKey(metaType) == TakeAlongPrefix(metaType) \in DOMAIN MetaOf(metaType)

MalformedKeyError(metaType, k) ==
    "invalid take-along " \o KindName(metaType) \o ". missing key after '/': " \o k

MissingTargetWarning(metaType, target) ==
    "take-along " \o KindName(metaType) \o " '" \o target
    \o "' not found on cluster resource: " \o cluster[1].Name
    \o ", namespace: " \o cluster[1].Namespace \o ". Ignoring"

Count(seq, x) == Cardinality({i \in 1..Len(seq) : seq[i] = x})

Kinds == {metaLabels, metaAnnotations}

----------------------------------------------------------------------------
(* C1 *)

\* C1: for either kind, when the scanned map holds no malformed key (no key
\* equal to the take-along prefix), the returned map holds, for each
\* take-along key prefix + T whose target T is a key of the map, T with the
\* source value of T and the marker of T with the empty string, and it holds
\* no other key.
C1_ExactTakeAlongMap ==
    Assembled =>
        \A metaType \in Kinds :
            ~HasMalformedKey(metaType) =>
                LET meta == MetaOf(metaType)
                    res == TakeAlongOf(metaType)
                    marker(T) == TakenFromPrefix(metaType) \o T
                IN /\ DOMAIN res = PresentTargets(metaType)
                                   \cup {marker(T) : T \in PresentTargets(metaType)}
                   /\ \A T \in PresentTargets(metaType) :
                        /\ T \in DOMAIN res /\ res[T] = meta[T]
                        /\ marker(T) \in DOMAIN res /\ res[marker(T)] = ""

----------------------------------------------------------------------------
(* C2 *)

\* C2: when the scanned map holds the bare take-along prefix as a key, the
\* scan returns a map with no entry and exactly one diagnostic, the
\* malformed-key error of a key of the map; it is the error of the bare
\* prefix when that is the only key the extractor rejects.  This holds for
\* every order of iteration and whatever other take-along keys there are.
C2_MalformedAbortsScan ==
    Assembled =>
        \A metaType \in Kinds :
            HasMalformedKey(metaType) =>
                LET diag == DiagOf(metaType)
                    rejected == {k \in DOMAIN MetaOf(metaType) :
                                    extractTakeAlongMeta(KindName(metaType), k)[2] # <<>>}
                IN /\ DOMAIN TakeAlongOf(metaType) = {}
                   /\ Len(diag) = 1
                   /\ \E k \in DOMAIN MetaOf(metaType) :
                        /\ HasPrefix(k, TakeAlongPrefix(metaType))
                        /\ diag[1] = MalformedKeyError(metaType, k)
                   /\ rejected = {TakeAlongPrefix(metaType)} =>
                        diag[1] = MalformedKeyError(metaType, TakeAlongPrefix(metaType))

\* A scan of labels with the bare prefix beside a valid take-along key whose
\* target is present: nothing is taken along, one error is logged.
C2_Witness ==
    /\ Assembled
    /\ {TAL, TAL \o "foo", "foo"} \subseteq DOMAIN cluster[1].Labels
    /\ argo[1].TakeAlongLabels = EmptyMap
    /\ DiagOf(metaLabels) = <<MalformedKeyError(metaLabels, TAL)>>

----------------------------------------------------------------------------
(* C3 *)

\* C3: in a map with no malformed key, each take-along key whose target T is
\* absent yields exactly one warning for T and neither T nor its marker in
\* the result, every take-along key whose target is present is still copied
\* with its marker, and there are as many warnings as take-along keys with
\* an absent target.
C3_MissingTargetWarned ==
    Assembled =>
        \A metaType \in Kinds :
            ~HasMalformedKey(metaType) =>
                LET res == TakeAlongOf(metaType)
                    diag == DiagOf(metaType)
                    marker(T) == TakenFromPrefix(metaType) \o T
                IN /\ Len(diag) = Cardinality(AbsentRequests(metaType))
                   /\ \A k \in AbsentRequests(metaType) :
                        LET T == Remainder(metaType, k)
                        IN /\ Count(diag, MissingTargetWarning(metaType, T)) = 1
                           /\ T \notin DOMAIN res
                           /\ marker(T) \notin DOMAIN res
                   /\ \A T \in PresentTargets(metaType) :
                        T \in DOMAIN res /\ marker(T) \in DOMAIN res

----------------------------------------------------------------------------
(* C4 *)

\* C4: a raw key that starts with the take-along prefix of the kind and
\* goes on returns all that follows the prefix and no error, also when what
\* follows holds the prefix again; a raw key that does not start with the
\* prefix returns the empty target and no error; the bare prefix returns an
\* error.
C4_ExtractWholeRemainder ==
    ret # <<>> =>
        LET takeAlong == "take-along-" \o call.metaType \o ".capi-to-argocd."
            key == call.key
        IN /\ (HasPrefix(key, takeAlong) /\ Len(key) > Len(takeAlong)) =>
                ret[1] = <<SubSeq(key, Len(takeAlong) + 1, Len(key)), <<>>>>
           /\ ~HasPrefix(key, takeAlong) => ret[1] = <<"", <<>>>>
           /\ key = takeAlong => ret[1][2] # <<>>

----------------------------------------------------------------------------
(* C5 *)

\* C5: the labels of the secret are the common labels, overridden by the
\* identity labels, overridden by the take-along labels: each key has the
\* value of the last of the three maps that holds it, and the secret has no
\* label outside the three maps.
C5_LabelMergePrecedence ==
    pc = "done" =>
        LET labels == secret[1].Labels
            common == GetArgoCommonLabels
            identity == argo[1].ClusterLabels
            takeAlong == argo[1].TakeAlongLabels
        IN /\ DOMAIN labels = DOMAIN common \cup DOMAIN identity \cup DOMAIN takeAlong
           /\ \A k \in DOMAIN labels :
                labels[k] = IF k \in DOMAIN takeAlong THEN takeAlong[k]
                            ELSE IF k \in DOMAIN identity THEN identity[k]
                            ELSE common[k]

\* A secret whose take-along labels collide with a common label and with an
\* identity label, each with a value of its own.
C5_Witness ==
    /\ pc = "done"
    /\ cluster # <<>>
    /\ {"capi-to-argocd/owned", "capi-to-argocd/cluster-namespace"}
           \subseteq DOMAIN argo[1].TakeAlongLabels
    /\ argo[1].TakeAlongLabels["capi-to-argocd/owned"] = "v"
    /\ secret[1].Labels["capi-to-argocd/owned"] = "v"
    /\ argo[1].TakeAlongLabels["capi-to-argocd/cluster-namespace"] = "d"
    /\ secret[1].Labels["capi-to-argocd/cluster-namespace"] = "d"

----------------------------------------------------------------------------
(* C6 *)

Carries(meta, k, v) == k \in DOMAIN meta /\ meta[k] = v

\* C6: when the cluster resource has an annotation take-along-annotation
\* prefix + T and an annotation T with value v (and no malformed annotation
\* key), the generated secret carries T with value v and the marker of T
\* with the empty value in its metadata.
C6_AnnotationsPropagated ==
    (pc = "done" /\ cluster # <<>> /\ ~HasMalformedKey(metaAnnotations)) =>
        \A T \in PresentTargets(metaAnnotations) :
            /\ \/ Carries(secret[1].Annotations, T, cluster[1].Annotations[T])
               \/ Carries(secret[1].Labels, T, cluster[1].Annotations[T])
            /\ \/ Carries(secret[1].Annotations, TakenFromPrefix(metaAnnotations) \o T, "")
               \/ Carries(secret[1].Labels, TakenFromPrefix(metaAnnotations) \o T, "")

----------------------------------------------------------------------------
(* C7 *)

HasField(json, field) == Index(json, "\"" \o field \o "\":") # 0

\* C7: the config of the generated secret has bearerToken, certData and
\* keyData only if the first user has the value, caData only if the CA data
\* of the first cluster is not empty, and tlsClientConfig only if one of CA,
\* certificate and key is present; with a bearer token alone it has
\* bearerToken and no tlsClientConfig, with none of the five it is {}.
C7_ConfigOmitsAbsent ==
    pc = "done" =>
        LET config == secret[1].Data.config
            kc == c.KubeConfig
            tls == kc.CaData # "" \/ kc.CertData # <<>> \/ kc.KeyData # <<>>
        IN /\ HasField(config, "bearerToken") => kc.Token # <<>>
           /\ HasField(config, "certData") => kc.CertData # <<>>
           /\ HasField(config, "keyData") => kc.KeyData # <<>>
           /\ HasField(config, "caData") => kc.CaData # ""
           /\ HasField(config, "tlsClientConfig") => tls
           /\ (kc.Token # <<>> /\ ~tls) =>
                (HasField(config, "bearerToken") /\ ~HasField(config, "tlsClientConfig"))
           /\ (kc.Token = <<>> /\ ~tls) => config = "{}"

----------------------------------------------------------------------------
(* C8 *)

\* The name the specification gives: "cluster-", the namespace and a hyphen when
\* namespacing is enabled, the secret name less one trailing "-kubeconfig".
ExpectedName(src) ==
    LET suffix == "-kubeconfig"
        n == Len(src.Name)
        B == IF n >= Len(suffix) /\ SubSeq(src.Name, n - Len(suffix) + 1, n) = suffix
             THEN SubSeq(src.Name, 1, n - Len(suffix))
             ELSE src.Name
        P == IF EnableNamespacedNames THEN src.Namespace \o "-" ELSE ""
    IN "cluster-" \o P \o B

\* C8: the generated secret is named "cluster-" + P + B and lives in the
\* configured target namespace, whatever the source namespace; with
\* namespacing disabled two sources of the same name in different namespaces
\* get the same name.
C8_NamespacedName ==
    /\ pc \in {"assembled", "done"} =>
            argo[1].NamespacedName = [Name |-> ExpectedName(s), Namespace |-> ArgoNamespace]
    /\ \A i \in 1..Len(history) :
            /\ history[i].secret.Name = ExpectedName(history[i].source)
            /\ history[i].secret.Namespace = ArgoNamespace
    /\ ~EnableNamespacedNames =>
            \A i, j \in 1..Len(history) :
                history[i].source.Name = history[j].source.Name =>
                    history[i].secret.Name = history[j].secret.Name

\* Two conversions of prod-kubeconfig, from two namespaces, with namespacing
\* disabled: both secrets are cluster-prod in the target namespace.
C8_Witness ==
    /\ ~EnableNamespacedNames
    /\ Len(history) = 2
    /\ history[1].source = [Name |-> "prod-kubeconfig", Namespace |-> "team"]
    /\ history[2].source = [Name |-> "prod-kubeconfig", Namespace |-> "team-a"]
    /\ history[1].secret.Name = "cluster-prod"
    /\ history[2].secret.Name = "cluster-prod"
    /\ history[2].secret.Namespace = ArgoNamespace

----------------------------------------------------------------------------
(* C9 *)

\* C9: two conversions of the same cluster resource, kubeconfig identity,
\* source secret and configuration yield the same secret, whatever order
\* the metadata maps are iterated in.
C9_ConversionDeterministic ==
    \A i, j \in 1..Len(history) :
        history[i].source = history[j].source =>
            history[i].secret = history[j].secret

----------------------------------------------------------------------------
(* C10 *)

IsKubeconfigName(name) == HasSuffix(name, "-kubeconfig")

\* C10: with namespacing enabled, two source secrets <base>-kubeconfig that
\* differ in namespace or in base get different generated names.
C10_NamesUnique ==
    EnableNamespacedNames =>
        \A i, j \in 1..Len(history) :
            (/\ IsKubeconfigName(history[i].source.Name)
             /\ IsKubeconfigName(history[j].source.Name)
             /\ history[i].source # history[j].source) =>
                history[i].secret.Name # history[j].secret.Name

====
